---- MODULE Spec2Model ----
(***************************************************************************)
(* Skill Challenge Progress Log (src/main.py): the CSV-backed entry store, *)
(* the week window, and the aggregations the dashboard derives from the    *)
(* loaded DataFrame.                                                       *)
(*                                                                         *)
(* Encoding.                                                               *)
(*  - a datetime.date is the number of days since 1970-01-01;              *)
(*  - a pandas Timestamp is [ts |-> seconds since 1970-01-01 00:00:00];    *)
(*  - the text of a date cell is [Y, m, d, T]: T = <<>> for 'YYYY-MM-DD'   *)
(*    and T = <<H, M, S>> for 'YYYY-MM-DD HH:MM:SS';                       *)
(*  - hours are fixed-point tenths of an hour (15 is 1.5, 20 is 2.0);      *)
(*  - NaN is the missing value read_csv produces for an empty cell.        *)
(***************************************************************************)
EXTENDS Integers, Sequences, FiniteSets, TLC

\* ------------------------------------------------------------------------
\* Bounds of the model
\* ------------------------------------------------------------------------

\* the backing file is never grown beyond this many records
MaxRows == 2

\* ------------------------------------------------------------------------
\* Calendar arithmetic (datetime / pandas Timestamp)
\* ------------------------------------------------------------------------

SecondsPerDay == 86400

\* proleptic Gregorian (year, month, day) of a day number
civil_from_days(z0) ==
    LET z   == z0 + 719468
        era == z \div 146097
        doe == z - era * 146097
        yoe == (doe - (doe \div 1460) + (doe \div 36524) - (doe \div 146096)) \div 365
        doy == doe - (365 * yoe + (yoe \div 4) - (yoe \div 100))
        mp  == (5 * doy + 2) \div 153
        d   == doy - ((153 * mp + 2) \div 5) + 1
        m   == IF mp < 10 THEN mp + 3 ELSE mp - 9
        y   == yoe + era * 400 + (IF m <= 2 THEN 1 ELSE 0)
    IN  <<y, m, d>>

\* day number of a proleptic Gregorian (year, month, day)
days_from_civil(y0, m, d) ==
    LET y   == IF m <= 2 THEN y0 - 1 ELSE y0
        era == y \div 400
        yoe == y - era * 400
        mp  == IF m > 2 THEN m - 3 ELSE m + 9
        doy == ((153 * mp + 2) \div 5) + d - 1
        doe == yoe * 365 + (yoe \div 4) - (yoe \div 100) + doy
    IN  era * 146097 + doe - 719468

\* date.strftime('%Y-%m-%d')
strftime(day) ==
    LET c == civil_from_days(day)
    IN  [Y |-> c[1], m |-> c[2], d |-> c[3], T |-> <<>>]

\* str(Timestamp): what to_csv writes for a Timestamp held in an object column
Timestamp_str(t) ==
    LET c   == civil_from_days(t.ts \div SecondsPerDay)
        sod == t.ts % SecondsPerDay
    IN  [Y |-> c[1], m |-> c[2], d |-> c[3],
         T |-> <<sod \div 3600, (sod % 3600) \div 60, sod % 60>>]

\* the Timestamp a date text parses to
parse_datetime(txt) ==
    [ts |-> days_from_civil(txt.Y, txt.m, txt.d) * SecondsPerDay
            + (IF txt.T = <<>> THEN 0
               ELSE txt.T[1] * 3600 + txt.T[2] * 60 + txt.T[3])]

\* Timestamp.weekday(): Monday is 0
weekday(t) == ((t.ts \div SecondsPerDay) + 3) % 7

\* Timestamp - timedelta(days = n): the time of day is kept
minus_days(t, n) == [ts |-> t.ts - n * SecondsPerDay]

\* Timestamp + timedelta(days = n)
plus_days(t, n) == [ts |-> t.ts + n * SecondsPerDay]

\* ------------------------------------------------------------------------
\* Input domains: what the form widgets can hold
\* ------------------------------------------------------------------------

\* st.selectbox("Name *") / st.text_input("Or enter a new name *")
NameInputs == {"", "Ava", "Ben"}

\* st.date_input("Date *"): Thu 2024-02-29, Mon 2024-03-04, Mon 2024-04-01
DateInputs ==
    {days_from_civil(2024, 2, 29), days_from_civil(2024, 3, 4),
     days_from_civil(2024, 4, 1)}

\* st.text_input("Skill Focus *")
SkillInputs == {"", "Guitar", "Piano"}

\* st.number_input("Hours Practiced *", min_value=0.0, max_value=24.0, step=0.5)
HoursInputs == {0, 20}

\* st.text_area("Progress Description *")
ProgressInputs == {"", "practiced scales"}

\* st.text_area("Challenges Faced")
ChallengeInputs == {""}

\* st.selectbox("Commitment Check *"): always one of its options
CommitmentInputs == {"Good - Met Goals"}

\* st.text_area("Additional Comments")
CommentInputs == {""}

WidgetInputs ==
    [name : NameInputs, date : DateInputs, skill_focus : SkillInputs,
     hours : HoursInputs, progress_description : ProgressInputs,
     challenges : ChallengeInputs, commitment : CommitmentInputs,
     comments : CommentInputs]

\* the submissions Spec explores: every name, date, skill and hours
FormInputs == {w \in WidgetInputs : w.progress_description # ""}

\* the entries SpecStore explores: every required text empty or not, on one
\* date and with hours given
StoreInputs ==
    {w \in WidgetInputs :
        /\ w.date = days_from_civil(2024, 3, 4)
        /\ w.hours = 20
        /\ w.name \in {"", "Ava"}
        /\ w.skill_focus \in {"", "Guitar"}}

\* times of day in seconds: 00:00:00 and 10:00:00
TimeInputs == {0, 36000}

\* pd.Timestamp.now(): Mon 2024-03-04 00:00:00 and Wed 2024-03-06 10:00:00
NowInputs ==
    {[ts |-> days_from_civil(2024, 3, 4) * SecondsPerDay],
     [ts |-> days_from_civil(2024, 3, 6) * SecondsPerDay + 36000]}

\* ------------------------------------------------------------------------
\* Entry Store: the CSV file and the DataFrame read from it
\* ------------------------------------------------------------------------

\* the missing value of a DataFrame cell; no widget text equals it
NaN == "<NaN>"

\* read_csv: an empty cell is read as NaN
read_cell(s) == IF s = "" THEN NaN ELSE s

\* to_csv: NaN is written as an empty cell (na_rep = '')
write_cell(v) == IF v = NaN THEN "" ELSE v

\* to_csv of a Date cell: a str is written as it is, a Timestamp by its str()
write_date(c) == IF "ts" \in DOMAIN c THEN Timestamp_str(c) ELSE c

\* pd.read_csv(CSV_PATH): Date stays text, empty text cells become NaN
read_csv(f) ==
    [i \in 1..Len(f) |->
        [Name       |-> read_cell(f[i].Name),
         Date       |-> f[i].Date,
         Skill      |-> read_cell(f[i].Skill),
         Hours      |-> f[i].Hours,
         Progress   |-> read_cell(f[i].Progress),
         Challenges |-> read_cell(f[i].Challenges),
         Commitment |-> read_cell(f[i].Commitment),
         Comments   |-> read_cell(f[i].Comments)]]

\* DataFrame.to_csv(CSV_PATH, index=False)
to_csv(d) ==
    [i \in 1..Len(d) |->
        [Name       |-> write_cell(d[i].Name),
         Date       |-> write_date(d[i].Date),
         Skill      |-> write_cell(d[i].Skill),
         Hours      |-> d[i].Hours,
         Progress   |-> write_cell(d[i].Progress),
         Challenges |-> write_cell(d[i].Challenges),
         Commitment |-> write_cell(d[i].Commitment),
         Comments   |-> write_cell(d[i].Comments)]]

\* pd.to_datetime raises ValueError: pandas >= 2 infers one format from the
\* first element and every element must match it; pandas < 2 parses each
\* element on its own and accepts both date texts
to_datetime_raises(d, strict) ==
    strict /\ \E i \in 1..Len(d) : (d[i].Date.T = <<>>) # (d[1].Date.T = <<>>)

\* df['Date'] = pd.to_datetime(df['Date'])
to_datetime(d) == [i \in 1..Len(d) |-> [d[i] EXCEPT !.Date = parse_datetime(@)]]

\* df['Name'].unique()
unique_names(d) == {d[i].Name : i \in 1..Len(d)}

\* the texts a Name can be, in code-point order
Alphabet == <<"", "Ava", "Ben">>

\* sorted(list) raises TypeError when it has to compare NaN (a float) with a str
sorted_raises(S) == NaN \in S /\ Cardinality(S) > 1

\* sorted(list)
sorted(S) == IF S = {NaN} THEN <<NaN>> ELSE SelectSeq(Alphabet, LAMBDA x : x \in S)

\* load_data(): the DataFrame it returns and st.session_state.names_list after it
load_data(f, names, strict) ==
    LET raw == read_csv(f)
    IN  IF raw = <<>>
        THEN [df |-> raw, names_list |-> names, failed |-> FALSE]
        ELSE IF to_datetime_raises(raw, strict) \/ sorted_raises(unique_names(raw))
        THEN [df |-> <<>>, names_list |-> names, failed |-> TRUE]
        ELSE [df |-> to_datetime(raw),
              names_list |-> sorted(unique_names(raw)), failed |-> FALSE]

\* entry_data: the dict the submit handler builds from the widgets
entry_data(w) ==
    [Name       |-> w.name,
     Date       |-> strftime(w.date),
     Skill      |-> w.skill_focus,
     Hours      |-> w.hours,
     Progress   |-> w.progress_description,
     Challenges |-> w.challenges,
     Commitment |-> w.commitment,
     Comments   |-> w.comments]

\* pd.concat([new_entry, df], ignore_index=True)
concat(e, d) == <<e>> \o d

\* save_entry(entry_data): the file it writes and names_list after it; the
\* final sorted() can raise after the file has been written
save_entry(e, f, names, strict) ==
    LET ld         == load_data(f, names, strict)
        updated_df == concat(e, ld.df)
        un         == unique_names(updated_df)
    IN  [file       |-> to_csv(updated_df),
         names_list |-> IF sorted_raises(un) THEN ld.names_list ELSE sorted(un),
         raised     |-> sorted_raises(un)]

\* the required-field check with name left out of the list
all_required_but_name(w) ==
    /\ w.skill_focus # ""
    /\ w.hours # 0
    /\ w.progress_description # ""
    /\ w.commitment # ""

\* all([name, date, skill_focus, hours, progress_description, commitment])
all_required(w) ==
    /\ w.name # ""
    /\ w.skill_focus # ""
    /\ w.hours # 0
    /\ w.progress_description # ""
    /\ w.commitment # ""

\* ------------------------------------------------------------------------
\* Time-window utilities and aggregations
\* ------------------------------------------------------------------------

\* Series.sum() of 'Hours Practiced'
RECURSIVE SumHours(_)
SumHours(d) == IF d = <<>> THEN 0 ELSE Head(d).Hours + SumHours(Tail(d))

\* df[df['Name'] == selected_user]
filter_user(d, u) == SelectSeq(d, LAMBDA r : r.Name = u)

\* get_week_range(date)
get_week_range(date) ==
    LET start == minus_days(date, weekday(date))
        end   == plus_days(start, 6)
    IN  <<start, end>>

\* calculate_weekly_hours with the Name comparison left out of the mask
calculate_weekly_hours_any_name(d, user_name, today) ==
    IF d = <<>> THEN 0
    ELSE LET start == minus_days(today, weekday(today))
             end   == plus_days(start, 6)
         IN  SumHours(SelectSeq(d, LAMBDA r :
                 r.Date.ts >= start.ts /\ r.Date.ts <= end.ts))

\* calculate_weekly_hours(df, user_name), with today = pd.Timestamp.now()
calculate_weekly_hours(d, user_name, today) ==
    IF d = <<>> THEN 0
    ELSE LET wr          == get_week_range(today)
             weekly_data == SelectSeq(d, LAMBDA r :
                                /\ r.Name = user_name
                                /\ r.Date.ts >= wr[1].ts
                                /\ r.Date.ts <= wr[2].ts)
         IN  SumHours(weekly_data)

\* the result of a chart builder: no figure, an exception, or a figure
None == [kind |-> "None"]
Raised(e) == [kind |-> "raise", error |-> e]

\* user_df.groupby('Skill Focus')['Hours Practiced'].sum(): NaN keys are dropped
skill_hours(d) ==
    [s \in {d[i].Skill : i \in 1..Len(d)} \ {NaN} |->
        SumHours(SelectSeq(d, LAMBDA r : r.Skill = s))]

\* max(values)
MaxOf(S) == CHOOSE x \in S : \A y \in S : y <= x

\* create_skill_radar_chart(user_df); the radial range is [0, max * 1.2], kept
\* here as max * 12 in hundredths of an hour
create_skill_radar_chart(user_df) ==
    IF user_df = <<>> THEN None
    ELSE LET sh == skill_hours(user_df)
         IN  IF DOMAIN sh = {} THEN Raised("ValueError")
             ELSE [kind |-> "figure", r |-> sh,
                   range |-> <<0, MaxOf({sh[s] : s \in DOMAIN sh}) * 12>>]

\* user_df.groupby('Date')['Hours Practiced'].sum()
daily_activity(d) ==
    [t \in {d[i].Date.ts : i \in 1..Len(d)} |->
        SumHours(SelectSeq(d, LAMBDA r : r.Date.ts = t))]

\* whether the ISO year y has 53 weeks
long_year(y) ==
    LET jan1 == (days_from_civil(y, 1, 1) + 3) % 7
        leap == (y % 4 = 0 /\ y % 100 # 0) \/ y % 400 = 0
    IN  jan1 = 3 \/ (leap /\ jan1 = 2)

\* Timestamp.isocalendar().week
iso_week(ts) ==
    LET day == ts \div SecondsPerDay
        y   == civil_from_days(day)[1]
        doy == day - days_from_civil(y, 1, 1) + 1
        wd  == ((day + 3) % 7) + 1
        w   == (doy - wd + 10) \div 7
    IN  IF w < 1 THEN (IF long_year(y - 1) THEN 53 ELSE 52)
        ELSE IF w = 53 /\ ~long_year(y) THEN 1
        ELSE w

\* create_activity_heatmap(user_df): the pivot of the daily totals by
\* (Week, WeekDay), WeekDay as Timestamp.weekday()
create_activity_heatmap(user_df) ==
    IF user_df = <<>> THEN None
    ELSE LET da   == daily_activity(user_df)
             cell(t) == <<iso_week(t), weekday([ts |-> t])>>
         IN  [kind |-> "figure",
              z |-> [c \in {cell(t) : t \in DOMAIN da} |->
                        LET S == {t \in DOMAIN da : cell(t) = c}
                            RECURSIVE Add(_)
                            Add(T) == IF T = {} THEN 0
                                      ELSE LET x == CHOOSE x \in T : TRUE
                                           IN  da[x] + Add(T \ {x})
                        IN  Add(S)]]

\* the month of a Timestamp, counted from year 0
month_index(ts) ==
    LET c == civil_from_days(ts \div SecondsPerDay)
    IN  c[1] * 12 + (c[2] - 1)

\* the label resample('M') gives a month: its last day at 00:00:00
month_end(k) ==
    LET n == k + 1
    IN  (days_from_civil(n \div 12, (n % 12) + 1, 1) - 1) * SecondsPerDay

\* monthly totals by groupby instead of resample: only months holding an entry
monthly_hours_groupby(user_df) ==
    [e \in {month_end(month_index(user_df[i].Date.ts)) : i \in 1..Len(user_df)} |->
        SumHours(SelectSeq(user_df, LAMBDA r :
                    month_end(month_index(r.Date.ts)) = e))]

\* user_df.set_index('Date').resample('M')['Hours Practiced'].sum(): one bin
\* for every month from the earliest entry's to the latest entry's
monthly_hours(user_df) ==
    IF user_df = <<>> THEN [k \in {} |-> 0]
    ELSE LET ks == {month_index(user_df[i].Date.ts) : i \in 1..Len(user_df)}
             lo == CHOOSE k \in ks : \A j \in ks : k <= j
             hi == CHOOSE k \in ks : \A j \in ks : j <= k
         IN  [e \in {month_end(k) : k \in lo..hi} |->
                SumHours(SelectSeq(user_df, LAMBDA r :
                            month_end(month_index(r.Date.ts)) = e))]

\* the three st.metric values: total hours, sessions, len(unique skills)
counts(user_df) ==
    <<SumHours(user_df), Len(user_df),
      Cardinality({user_df[i].Skill : i \in 1..Len(user_df)})>>

\* what the dashboard section renders for a loaded DataFrame and a selection
dashboard(d, selected_user, today) ==
    IF d = <<>> THEN [kind |-> "info"]
    ELSE IF selected_user # "All Users"
    THEN LET user_df == filter_user(d, selected_user)
         IN  [kind |-> "user",
              weekly_hours |-> calculate_weekly_hours(d, selected_user, today),
              radar |-> create_skill_radar_chart(user_df),
              heatmap |-> create_activity_heatmap(user_df),
              overall |-> user_df # <<>>]
    ELSE [kind |-> "all", overall |-> TRUE]

\* ------------------------------------------------------------------------
\* State
\* ------------------------------------------------------------------------

VARIABLES
    file,             \* records of data/progress_logs.csv, first record first
    names_list,       \* st.session_state.names_list
    success_message,  \* st.session_state.success_message
    df,               \* the DataFrame the dashboard was last rendered from
    message,          \* what the last script run showed for the form
    now,              \* the wall clock, pd.Timestamp.now()
    pandas2           \* whether the installed pandas is version 2 or later

vars == <<file, names_list, success_message, df, message, now, pandas2>>

Init ==
    /\ file = <<>>
    /\ names_list = <<>>
    /\ success_message = FALSE
    /\ df = <<>>
    /\ message = "none"
    /\ now \in NowInputs
    /\ pandas2 \in BOOLEAN

\* One run of the script with the form not submitted: load_data() at the top,
\* the form, the success banner, load_data() for the dashboard.
Render(names0) ==
    LET l1 == load_data(file, names0, pandas2)
        l2 == load_data(file, l1.names_list, pandas2)
    IN  /\ names_list' = l2.names_list
        /\ df' = l2.df
        /\ success_message' = FALSE
        /\ message' = "none"
        /\ UNCHANGED <<file, now, pandas2>>

\* a widget interaction reruns the script
Rerun == Render(names_list)

\* a new browser session: session_state starts empty, then the script runs
NewSession == Render(<<>>)

\* "Log Progress" pressed with widget values w: one run of the script
Submit(w) ==
    LET l1 == load_data(file, names_list, pandas2)
        sv == save_entry(entry_data(w), file, l1.names_list, pandas2)
    IN  IF ~all_required(w)
        THEN LET l2 == load_data(file, l1.names_list, pandas2)
             IN  /\ message' = "error"
                 /\ names_list' = l2.names_list
                 /\ df' = l2.df
                 /\ success_message' = FALSE
                 /\ UNCHANGED <<file, now, pandas2>>
        ELSE /\ Len(sv.file) <= MaxRows
             /\ file' = sv.file
             /\ IF sv.raised
                THEN /\ message' = "exception"
                     /\ names_list' = sv.names_list
                     /\ UNCHANGED <<df, success_message>>
                ELSE LET l2 == load_data(sv.file, sv.names_list, pandas2)
                     IN  /\ message' = "success"
                         /\ names_list' = l2.names_list
                         /\ df' = l2.df
                         /\ success_message' = FALSE
             /\ UNCHANGED <<now, pandas2>>

\* time passes
Tick ==
    /\ now' \in NowInputs
    /\ now'.ts > now.ts
    /\ UNCHANGED <<file, names_list, success_message, df, message, pandas2>>

Next ==
    \/ Rerun
    \/ NewSession
    \/ \E w \in FormInputs : Submit(w)
    \/ Tick

Spec == Init /\ [][Next]_vars

\* ------------------------------------------------------------------------
\* The store called directly
\* ------------------------------------------------------------------------

\* save_entry(entry_data) called with the entry as given, no form in front
SaveEntryCall(w) ==
    LET sv == save_entry(entry_data(w), file, names_list, pandas2)
    IN  /\ Len(sv.file) <= MaxRows
        /\ file' = sv.file
        /\ names_list' = sv.names_list
        /\ message' = IF sv.raised THEN "exception" ELSE "none"
        /\ UNCHANGED <<success_message, df, now, pandas2>>

NextStore ==
    \/ Rerun
    \/ \E w \in StoreInputs : Submit(w)
    \/ \E w \in StoreInputs : SaveEntryCall(w)

\* the clock plays no part in the store: it starts at the earliest instant
InitStore == Init /\ \A n \in NowInputs : now.ts <= n.ts

SpecStore == InitStore /\ [][NextStore]_vars

\* ------------------------------------------------------------------------
\* Vocabulary of the properties
\* ------------------------------------------------------------------------

\* the calendar date of a Timestamp, as a day number
date_of(t) == t.ts \div SecondsPerDay

\* the names a stored entry can carry
UserNames == NameInputs \ {""}

\* what load_data() returns for a file in the current session
Loaded(f) == load_data(f, names_list, pandas2).df

\* how many times x occurs in the sequence q
Count(x, q) == Cardinality({i \in 1..Len(q) : q[i] = x})

\* the day number of the Monday of the calendar week containing a day
MondayOf(day) == day - ((day + 3) % 7)

\* the stated weekly total: same name, date from that Monday to the Sunday
ClaimedWeeklyHours(d, u, today) ==
    LET mon == MondayOf(date_of(today))
    IN  SumHours(SelectSeq(d, LAMBDA r :
            /\ r.Name = u
            /\ date_of(r.Date) >= mon
            /\ date_of(r.Date) <= mon + 6))

\* a loaded row carries exactly what the widgets held; an optional text that
\* was left empty is absent in the row
SameEntry(r, w) ==
    /\ r.Name = w.name
    /\ r.Date = [ts |-> w.date * SecondsPerDay]
    /\ r.Skill = w.skill_focus
    /\ r.Hours = w.hours
    /\ r.Progress = w.progress_description
    /\ write_cell(r.Challenges) = w.challenges
    /\ r.Commitment = w.commitment
    /\ write_cell(r.Comments) = w.comments

\* a stored record with its date cell reduced to the calendar date
StoredEntry(row) == [row EXCEPT !.Date = date_of(parse_datetime(@))]

StoredEntries(f) == [i \in 1..Len(f) |-> StoredEntry(f[i])]

\* a valid entry in the sense of the data model: hours may be 0.0
ValidEntry(w) ==
    w.name # "" /\ w.skill_focus # "" /\ w.progress_description # ""

\* ------------------------------------------------------------------------
\* Properties
\* ------------------------------------------------------------------------

\* C1: for every name, weekly_hours is the sum of the hours of that name's
\* entries dated from the Monday to the Sunday of the week containing now,
\* both ends included.
C1_WeeklyHoursCoverWholeWeek ==
    \A u \in UserNames :
        calculate_weekly_hours(df, u, now) = ClaimedWeeklyHours(df, u, now)

\* C2: submitting a valid entry (hours anywhere in [0.0, 24.0]) and loading
\* returns a collection that contains the entry, every field as submitted.
C2_SubmitThenLoadReturnsEntry ==
    [][\A w \in FormInputs :
          (ValidEntry(w) /\ Submit(w)) =>
              \E i \in 1..Len(Loaded(file')) : SameEntry(Loaded(file')[i], w)]_vars

\* C3: the store is append-only: no step removes or alters a stored entry, and
\* every entry load returned before is still returned, as many times.
C3_AppendOnly ==
    [][/\ \A i \in 1..Len(file) :
             Count(StoredEntry(file[i]), StoredEntries(file'))
                 >= Count(StoredEntry(file[i]), StoredEntries(file))
       /\ \A i \in 1..Len(Loaded(file)) :
             Count(Loaded(file)[i], Loaded(file'))
                 >= Count(Loaded(file)[i], Loaded(file))]_vars

\* C4, as stated: whoever calls append with an entry that has an empty required
\* field gets the validation error and the file keeps its entry count.
C4_EveryCallerIsValidated ==
    [][\A w \in StoreInputs :
          (~ValidEntry(w) /\ (Submit(w) \/ SaveEntryCall(w))) =>
              (message' = "error" /\ Len(file') = Len(file))]_vars

\* C4, amended: a form submission with an empty required field shows the
\* validation error and leaves the file as it was; the validation is the
\* submit handler's, save_entry itself writes whatever it is given.
C4_FormSubmissionIsValidated ==
    [][\A w \in StoreInputs :
          (~ValidEntry(w) /\ Submit(w)) =>
              (message' = "error" /\ file' = file)]_vars

\* an invalid submission was rejected while the file held entries
C4_Witness == message = "error" /\ file # <<>>

\* the month (year * 12 + month - 1) an entry's date falls in
EntryMonth(r) ==
    LET c == civil_from_days(date_of(r.Date))
    IN  c[1] * 12 + (c[2] - 1)

\* the months of 2024 and the Timestamp of the last day of each
Months2024 == {2024 * 12 + k : k \in 0..11}

LastDayOf(k) ==
    LET y == k \div 12
        m == (k % 12) + 1
    IN  IF m = 12 THEN days_from_civil(y, 12, 31)
        ELSE days_from_civil(y, m + 1, 1) - 1

\* C5, as stated: the keys of monthly_totals are exactly the months in which
\* an entry's date falls, each with the sum of that month's hours.
C5_OnlyMonthsWithEntries ==
    \A u \in UserNames :
        LET ud == filter_user(df, u)
            mh == monthly_hours(ud)
        IN  \A k \in Months2024 :
                LET e == LastDayOf(k) * SecondsPerDay
                IN  /\ e \in DOMAIN mh <=> \E i \in 1..Len(ud) : EntryMonth(ud[i]) = k
                    /\ e \in DOMAIN mh =>
                          mh[e] = SumHours(SelectSeq(ud, LAMBDA r : EntryMonth(r) = k))

\* C5, amended: the keys of monthly_totals are exactly the months from the
\* month of the earliest entry to the month of the latest entry, a month
\* without an entry included with total 0; each value is the sum of that
\* month's hours.
C5_EveryMonthOfTheRange ==
    \A u \in UserNames :
        LET ud == filter_user(df, u)
            mh == monthly_hours(ud)
        IN  /\ \A e \in DOMAIN mh : \E k \in Months2024 : e = LastDayOf(k) * SecondsPerDay
            /\ \A k \in Months2024 :
                LET e == LastDayOf(k) * SecondsPerDay
                IN  /\ e \in DOMAIN mh <=>
                          \E i, j \in 1..Len(ud) :
                              EntryMonth(ud[i]) <= k /\ k <= EntryMonth(ud[j])
                    /\ e \in DOMAIN mh =>
                          mh[e] = SumHours(SelectSeq(ud, LAMBDA r : EntryMonth(r) = k))

\* a user has entries in February and in April 2024 and none in March
C5_Witness ==
    \E u \in UserNames :
        LET ud == filter_user(df, u)
        IN  /\ \E i \in 1..Len(ud) : EntryMonth(ud[i]) = 2024 * 12 + 1
            /\ \E i \in 1..Len(ud) : EntryMonth(ud[i]) = 2024 * 12 + 3
            /\ \A i \in 1..Len(ud) : EntryMonth(ud[i]) # 2024 * 12 + 2

\* C6: names_list is the sorted list of the distinct names of the entries in
\* the backing file.
C6_NamesListMatchesFile ==
    names_list = sorted({file[i].Name : i \in 1..Len(file)})

\* C7: week_range(now) starts on the Monday of now's week at 00:00, ends on the
\* Sunday six days later, contains now, and is the same at every time of day.
C7_WeekRangeIsMondayToSunday ==
    LET wr  == get_week_range(now)
        mon == MondayOf(date_of(now))
    IN  /\ wr[1].ts = mon * SecondsPerDay
        /\ date_of(wr[2]) = mon + 6
        /\ date_of(wr[1]) <= date_of(now) /\ date_of(now) <= date_of(wr[2])
        /\ \A t \in TimeInputs :
              get_week_range([ts |-> date_of(now) * SecondsPerDay + t]) = wr

\* C8: for a fixed name and a fixed now, no step decreases weekly_hours; an
\* appended entry of that name dated inside the week adds exactly its hours,
\* any other appended entry leaves it unchanged.
C8_WeeklyHoursGrowByAppends ==
    [][\A u \in UserNames : \A n \in NowInputs :
          /\ calculate_weekly_hours(df', u, n) >= calculate_weekly_hours(df, u, n)
          /\ \A w \in FormInputs :
                (all_required(w) /\ Submit(w)) =>
                    calculate_weekly_hours(df', u, n) =
                        calculate_weekly_hours(df, u, n)
                        + (IF /\ w.name = u
                              /\ w.date >= MondayOf(date_of(n))
                              /\ w.date <= MondayOf(date_of(n)) + 6
                           THEN w.hours ELSE 0)]_vars

\* C9: for a name with no entry in the loaded collection (every name, when the
\* collection is empty) each aggregation gives its zero or empty form and no
\* chart builder raises; an empty collection renders the "no entries" notice.
C9_EmptyAggregations ==
    /\ \A u \in UserNames :
          u \notin unique_names(df) =>
              LET ud == filter_user(df, u)
              IN  /\ calculate_weekly_hours(df, u, now) = 0
                  /\ DOMAIN skill_hours(ud) = {}
                  /\ DOMAIN daily_activity(ud) = {}
                  /\ DOMAIN monthly_hours(ud) = {}
                  /\ counts(ud) = <<0, 0, 0>>
                  /\ create_skill_radar_chart(ud) = None
                  /\ create_activity_heatmap(ud) = None
    /\ df = <<>> => \A u \in UserNames \cup {"All Users"} :
                        dashboard(df, u, now) = [kind |-> "info"]

\* a name without entries is filtered from a collection in which another name
\* has hours inside the current week
C9_Witness ==
    \E u, v \in UserNames :
        /\ u \notin unique_names(df)
        /\ calculate_weekly_hours(df, v, now) > 0

\* C10: every record of the backing file has its Date cell as YYYY-MM-DD.
C10_DateCellsAreYMD ==
    \A i \in 1..Len(file) : file[i].Date.T = <<>>

====
